---------------------------- MODULE Spec2Model ----------------------------
(***************************************************************************)
(* Model of the beat-timing engine of Disco-Fever (src/src/beat_timing.rs): *)
(* BeatConfig's timing math (beat_period_seconds, beat_time_seconds,        *)
(* judge) and the BeatTracker state machine (new, reset, register_press,    *)
(* poll_missed).                                                            *)
(*                                                                          *)
(* Numbers.  The source computes in f32 seconds.  The model computes in     *)
(* exact integer ticks: the literal 60.0 of beat_period_seconds is          *)
(* TicksPerMinute ticks, and the tempi of Bpms divide it into even          *)
(* periods, so that 60.0 / bpm and beat_period / 2.0 are exact.  The        *)
(* operators keep the semantics of the f32 operations they stand for:       *)
(* `%` is the truncated remainder (sign of the dividend), `round` rounds    *)
(* half away from zero, and `as usize` saturates negative values to 0.      *)
(* Floating-point rounding error is not modelled.  A tempo of 0 gives the    *)
(* period 60.0 / 0.0 = +inf; the values the f32 operations then produce     *)
(* (+inf, NaN) are written out case by case where the tempo is 0.           *)
(***************************************************************************)
EXTENDS Integers, Sequences, FiniteSets, Bags, TLC

VARIABLES
    config,           \* BeatTracker.config
    resolved_beats,   \* BeatTracker.resolved_beats
    next_miss_check,  \* BeatTracker.next_miss_check
    op,               \* the last call made on the tracker or the config
    elapsed,          \* the elapsed_seconds argument of the last call
    press,            \* the PressResult returned by the last register_press
    missed,           \* the Vec<MissedBeat> returned by the last poll_missed
    judged,           \* the Judgment returned by the last direct judge call
    accepted,         \* session history: bag of beat indices an on-beat press was Accepted for
    reported,         \* session history: beat indices reported missed, in emission order
    in_window,        \* session history: the beats whose tolerance window a press fell in
    fresh             \* a tracker built by BeatTracker::new when the session began
                      \* and given the same calls since, with what it returned

vars == <<config, resolved_beats, next_miss_check, op, elapsed, press, missed,
          judged, accepted, reported, in_window, fresh>>

----------------------------------------------------------------------------
(* Bounds and input domains                                                *)

TicksPerMinute == 24      \* the 60.0 seconds of beat_period_seconds, in ticks

MaxTime == 10             \* largest elapsed value a caller supplies
MaxOffset == 1            \* tracker configurations: |offset_seconds| <= MaxOffset
MaxJudgeOffset == 5       \* judge inputs: |offset_seconds| <= MaxJudgeOffset
MaxLeniency == 1          \* leniency_seconds in 0..MaxLeniency
MaxGrace == 1             \* grace_beats in 0..MaxGrace
MaxBeat == 3              \* beat indices handed to beat_time_seconds directly
MaxCursor == 6            \* cap of next_miss_check (a non-positive period never stops it)

Bpms == {3, 6, -6}        \* periods of 8, 4 and (ill-formed) -4 ticks

Times == 0..MaxTime

Configs ==
    [bpm : Bpms, offset_seconds : (-MaxOffset)..MaxOffset,
     leniency_seconds : 0..MaxLeniency, grace_beats : 0..MaxGrace]

JudgeConfigs ==
    [bpm : Bpms, offset_seconds : (-MaxJudgeOffset)..MaxJudgeOffset,
     leniency_seconds : 0..MaxLeniency, grace_beats : 0..MaxGrace]

----------------------------------------------------------------------------
(* f32 arithmetic on exact ticks                                           *)

Abs(x) == IF x < 0 THEN -x ELSE x

Min(a, b) == IF a <= b THEN a ELSE b

Max(a, b) == IF a >= b THEN a ELSE b

\* a / b where b divides a (the quotient keeps the sign of the operands)
ExactDiv(a, b) ==
    IF (a < 0) = (b < 0) THEN Abs(a) \div Abs(b) ELSE -(Abs(a) \div Abs(b))

\* a % b of Rust's f32: the remainder of truncated division, signed as a
Rem(a, b) == IF a < 0 THEN -(Abs(a) % Abs(b)) ELSE Abs(a) % Abs(b)

\* (a / b).round() as usize: half away from zero, negatives saturate to 0
RoundAsUsize(a, b) ==
    IF a = 0 \/ (a < 0) = (b < 0)
    THEN (2 * Abs(a) + Abs(b)) \div (2 * Abs(b))
    ELSE 0

Range(s) == {s[i] : i \in DOMAIN s}

\* how often x occurs in the sequence s
Occurrences(s, x) == Cardinality({i \in DOMAIN s : s[i] = x})

----------------------------------------------------------------------------
(* BeatConfig                                                              *)

Infinity == "inf"        \* f32::INFINITY

NaN == "NaN"             \* f32::NAN

\* 60.0 / bpm; 60.0 / 0.0 is +inf
beat_period_seconds(c) ==
    IF c.bpm = 0 THEN Infinity ELSE ExactDiv(TicksPerMinute, c.bpm)

\* f32::is_finite of beat_period_seconds(c)
period_is_finite(c) == c.bpm # 0

\* beat_index * period - offset; 0 * inf is NaN, and k * inf is +inf for k > 0
beat_time_seconds(c, beat_index) ==
    IF period_is_finite(c)
    THEN beat_index * beat_period_seconds(c) - c.offset_seconds
    ELSE IF beat_index = 0 THEN NaN ELSE Infinity

\* the configurations the timing math is defined for: a finite positive tempo
\* and a nonnegative tolerance
ValidConfig(c) == c.bpm > 0 /\ c.leniency_seconds >= 0

\* the local `phase` of judge; inf % inf is NaN
Phase(c, elapsed_seconds) ==
    LET beat_period == beat_period_seconds(c)
    IN  IF period_is_finite(c)
        THEN Rem(elapsed_seconds + c.offset_seconds + ExactDiv(beat_period, 2), beat_period)
        ELSE NaN

\* With an infinite period the phase and the error are NaN, every comparison
\* with NaN is false, and (x / inf).round() is 0.
judge(c, elapsed_seconds) ==
    LET beat_period == beat_period_seconds(c)
        phase == Phase(c, elapsed_seconds)
        error == Min(phase, beat_period - phase)
    IN  IF period_is_finite(c)
        THEN [beat_index |-> RoundAsUsize(elapsed_seconds + c.offset_seconds, beat_period),
              on_beat |-> error <= c.leniency_seconds,
              error_seconds |-> IF phase > ExactDiv(beat_period, 2) THEN -error ELSE error]
        ELSE [beat_index |-> 0, on_beat |-> FALSE, error_seconds |-> NaN]

----------------------------------------------------------------------------
(* BeatTracker                                                             *)

\* register_press without the duplicate test: every on-beat press is Accepted
register_press_no_dedup(c, resolved, elapsed_seconds) ==
    LET judgment == judge(c, elapsed_seconds)
        counts == judgment.beat_index >= c.grace_beats
    IN  [result |-> [judgment |-> judgment, accept |-> "Accepted", counts |-> counts],
         resolved |-> IF judgment.on_beat
                      THEN resolved \cup {judgment.beat_index}
                      ELSE resolved]

\* register_press consuming the beat on any first press, on-beat or not
register_press_any_press(c, resolved, elapsed_seconds) ==
    LET judgment == judge(c, elapsed_seconds)
        counts == judgment.beat_index >= c.grace_beats
    IN  IF judgment.beat_index \in resolved
        THEN [result |-> [judgment |-> judgment, accept |-> "Duplicate", counts |-> counts],
              resolved |-> resolved]
        ELSE [result |-> [judgment |-> judgment, accept |-> "Accepted", counts |-> counts],
              resolved |-> resolved \cup {judgment.beat_index}]

\* register_press counting only the presses that are on-beat
register_press_counts_on_beat(c, resolved, elapsed_seconds) ==
    LET judgment == judge(c, elapsed_seconds)
        counts == judgment.on_beat /\ judgment.beat_index >= c.grace_beats
    IN  IF judgment.on_beat
        THEN IF judgment.beat_index \in resolved
             THEN [result |-> [judgment |-> judgment, accept |-> "Duplicate", counts |-> counts],
                   resolved |-> resolved]
             ELSE [result |-> [judgment |-> judgment, accept |-> "Accepted", counts |-> counts],
                   resolved |-> resolved \cup {judgment.beat_index}]
        ELSE [result |-> [judgment |-> judgment, accept |-> "Accepted", counts |-> counts],
              resolved |-> resolved]

\* register_press: the PressResult and the resolved set after the call
register_press(c, resolved, elapsed_seconds) ==
    LET judgment == judge(c, elapsed_seconds)
        counts == judgment.beat_index >= c.grace_beats
    IN  IF judgment.on_beat
        THEN IF judgment.beat_index \in resolved
             THEN [result |-> [judgment |-> judgment, accept |-> "Duplicate", counts |-> counts],
                   resolved |-> resolved]
             ELSE [result |-> [judgment |-> judgment, accept |-> "Accepted", counts |-> counts],
                   resolved |-> resolved \cup {judgment.beat_index}]
        ELSE [result |-> [judgment |-> judgment, accept |-> "Accepted", counts |-> counts],
              resolved |-> resolved]

\* the break test with < for <=
window_open_strict(c, beat_index, elapsed_seconds) ==
    elapsed_seconds < beat_time_seconds(c, beat_index) + c.leniency_seconds

\* the break test waiting a whole beat period, not the leniency
window_open_period(c, beat_index, elapsed_seconds) ==
    elapsed_seconds <= beat_time_seconds(c, beat_index) + beat_period_seconds(c)

\* the break test with the leniency taken off the beat time
window_open_minus(c, beat_index, elapsed_seconds) ==
    elapsed_seconds <= beat_time_seconds(c, beat_index) - c.leniency_seconds

\* poll_missed's break test: the leniency window of beat_index is not yet over;
\* elapsed <= NaN is false and elapsed <= +inf is true
window_open(c, beat_index, elapsed_seconds) ==
    IF period_is_finite(c)
    THEN elapsed_seconds <= beat_time_seconds(c, beat_index) + c.leniency_seconds
    ELSE beat_time_seconds(c, beat_index) = Infinity

\* the test left out: every beat the scan passes is reported
\* the test of the resolved set inverted
never_resolved_inverted(resolved, beat_index) == beat_index \in resolved

never_resolved_unchecked(resolved, beat_index) == TRUE

\* poll_missed's test before it emits a MissedBeat
never_resolved(resolved, beat_index) == beat_index \notin resolved

\* the advance stepping over a beat
advance_skips(c, cursor) == Max(cursor + 2, c.grace_beats)

\* poll_missed's advance of next_miss_check
advance(c, cursor) == Max(cursor + 1, c.grace_beats)

\* the MissedBeat with the lateness counted from the end of the leniency window
missed_beat_past_window(c, beat_index, elapsed_seconds) ==
    [beat_index |-> beat_index,
     late_by_seconds |-> IF period_is_finite(c)
                         THEN elapsed_seconds
                              - (beat_time_seconds(c, beat_index) + c.leniency_seconds)
                         ELSE NaN]

\* the MissedBeat poll_missed pushes; elapsed - NaN is NaN
missed_beat(c, beat_index, elapsed_seconds) ==
    [beat_index |-> beat_index,
     late_by_seconds |-> IF period_is_finite(c)
                         THEN elapsed_seconds - beat_time_seconds(c, beat_index)
                         ELSE NaN]

\* the loop putting each MissedBeat at the front of the result
RECURSIVE poll_loop_prepend(_, _, _, _, _)
poll_loop_prepend(c, resolved, cursor, elapsed_seconds, out) ==
    LET beat_period == beat_period_seconds(c)
        beat_index == cursor
    IN  IF window_open(c, beat_index, elapsed_seconds)
        THEN [resolved |-> resolved, cursor |-> cursor, missed |-> out]
        ELSE LET miss == never_resolved(resolved, beat_index)
                 resolved2 == IF miss THEN resolved \cup {beat_index} ELSE resolved
                 out2 == IF miss
                         THEN <<missed_beat(c, beat_index, elapsed_seconds)>> \o out
                         ELSE out
                 cursor2 == advance(c, cursor)
             IN  IF ~period_is_finite(c) \/ beat_period <= 0
                 THEN [resolved |-> resolved2, cursor |-> cursor2, missed |-> out2]
                 ELSE poll_loop_prepend(c, resolved2, cursor2, elapsed_seconds, out2)

\* poll_missed: the loop, from one test of the break condition to the end
RECURSIVE poll_loop(_, _, _, _, _)
poll_loop(c, resolved, cursor, elapsed_seconds, out) ==
    LET beat_period == beat_period_seconds(c)
        beat_index == cursor
    IN  IF window_open(c, beat_index, elapsed_seconds)
        THEN [resolved |-> resolved, cursor |-> cursor, missed |-> out]
        ELSE LET miss == never_resolved(resolved, beat_index)
                 resolved2 == IF miss THEN resolved \cup {beat_index} ELSE resolved
                 out2 == IF miss
                         THEN Append(out, missed_beat(c, beat_index, elapsed_seconds))
                         ELSE out
                 cursor2 == advance(c, cursor)
             IN  IF ~period_is_finite(c) \/ beat_period <= 0
                 THEN [resolved |-> resolved2, cursor |-> cursor2, missed |-> out2]
                 ELSE poll_loop(c, resolved2, cursor2, elapsed_seconds, out2)

\* poll_missed scanning from grace_beats on every call, not from the cursor
poll_missed_restart(c, resolved, cursor, elapsed_seconds) ==
    poll_loop(c, resolved, c.grace_beats, elapsed_seconds, <<>>)

\* poll_missed scanning from beat 0 on every call, not from the cursor
poll_missed_from_zero(c, resolved, cursor, elapsed_seconds) ==
    poll_loop(c, resolved, 0, elapsed_seconds, <<>>)

poll_missed(c, resolved, cursor, elapsed_seconds) ==
    poll_loop(c, resolved, cursor, elapsed_seconds, <<>>)

----------------------------------------------------------------------------
(* State machine                                                           *)

NoPress == [judgment |-> [beat_index |-> 0, on_beat |-> FALSE, error_seconds |-> 0],
            accept |-> "None", counts |-> FALSE]

NoJudgment == [beat_index |-> 0, on_beat |-> FALSE, error_seconds |-> 0]

\* the beats whose tolerance window [beat_time - leniency, beat_time + leniency]
\* holds elapsed_seconds
WindowBeats(c, elapsed_seconds) ==
    {k \in 0..(MaxTime + MaxOffset + 1) :
        Abs(elapsed_seconds - beat_time_seconds(c, k)) <= c.leniency_seconds}

\* BeatTracker::new: the fields of the tracker it builds
new(c) == [config |-> c, resolved_beats |-> {}, next_miss_check |-> c.grace_beats]

\* reset leaving the resolved set as it was
reset_keeps_resolved(tracker, c) ==
    [config |-> c, resolved_beats |-> tracker.resolved_beats,
     next_miss_check |-> c.grace_beats]

\* BeatTracker::reset: the fields of the tracker after the call
reset(tracker, c) ==
    [config |-> c, resolved_beats |-> {}, next_miss_check |-> c.grace_beats]

\* the tracker beside which the session's tracker is run: built by new(c);
\* after_history tells whether the session began with the reset of a tracker
\* that had resolved beats or an advanced cursor
Fresh(c, after_history) ==
    [config |-> new(c).config,
     resolved_beats |-> new(c).resolved_beats,
     next_miss_check |-> new(c).next_miss_check,
     press |-> NoPress,
     missed |-> <<>>,
     after_history |-> after_history]

\* BeatTracker::new
New(c) ==
    /\ config = new(c).config
    /\ resolved_beats = new(c).resolved_beats
    /\ next_miss_check = new(c).next_miss_check
    /\ op = "new"
    /\ elapsed = 0
    /\ press = NoPress
    /\ missed = <<>>
    /\ judged = NoJudgment
    /\ accepted = EmptyBag
    /\ reported = <<>>
    /\ in_window = {}
    /\ fresh = Fresh(c, FALSE)

Init == \E c \in Configs : New(c)

\* BeatTracker::reset
Reset(c) ==
    LET t == reset([config |-> config, resolved_beats |-> resolved_beats,
                    next_miss_check |-> next_miss_check], c)
    IN  /\ config' = t.config
        /\ resolved_beats' = t.resolved_beats
        /\ next_miss_check' = t.next_miss_check
        /\ op' = "reset"
        /\ elapsed' = 0
        /\ press' = NoPress
        /\ missed' = <<>>
        /\ accepted' = EmptyBag
        /\ reported' = <<>>
        /\ fresh' = Fresh(c, resolved_beats # {} \/ next_miss_check # config.grace_beats)
        /\ UNCHANGED <<judged, in_window>>

\* BeatTracker::register_press, but for the history of tolerance windows
Press(e) ==
    LET r == register_press(config, resolved_beats, e)
        f == register_press(fresh.config, fresh.resolved_beats, e)
    IN  /\ resolved_beats' = r.resolved
        /\ press' = r.result
        /\ missed' = <<>>
        /\ op' = "register_press"
        /\ elapsed' = e
        /\ accepted' = IF r.result.judgment.on_beat /\ r.result.accept = "Accepted"
                       THEN accepted (+) SetToBag({r.result.judgment.beat_index})
                       ELSE accepted
        /\ fresh' = [fresh EXCEPT !.resolved_beats = f.resolved,
                                  !.press = f.result,
                                  !.missed = <<>>]
        /\ UNCHANGED <<config, next_miss_check, judged, reported>>

RegisterPress(e) == Press(e) /\ UNCHANGED in_window

\* BeatTracker::poll_missed
PollMissed(e) ==
    LET r == poll_missed(config, resolved_beats, next_miss_check, e)
        f == poll_missed(fresh.config, fresh.resolved_beats, fresh.next_miss_check, e)
    IN  /\ r.cursor <= MaxCursor
        /\ resolved_beats' = r.resolved
        /\ next_miss_check' = r.cursor
        /\ missed' = r.missed
        /\ press' = NoPress
        /\ op' = "poll_missed"
        /\ elapsed' = e
        /\ reported' = reported \o [i \in DOMAIN r.missed |-> r.missed[i].beat_index]
        /\ fresh' = [fresh EXCEPT !.resolved_beats = f.resolved,
                                  !.next_miss_check = f.cursor,
                                  !.press = NoPress,
                                  !.missed = f.missed]
        /\ UNCHANGED <<config, judged, accepted, in_window>>

Next ==
    \/ \E e \in Times : RegisterPress(e)
    \/ \E e \in Times : PollMissed(e)
    \/ \E c \in Configs : Reset(c)

\* Any calls, any elapsed values, any number of sessions
Spec == Init /\ [][Next]_vars

----------------------------------------------------------------------------
(* The timing math alone: judge and beat_time_seconds on bounded inputs     *)

\* BeatConfig::judge
Judge(e) ==
    /\ judged' = judge(config, e)
    /\ elapsed' = e
    /\ op' = "judge"
    /\ UNCHANGED <<config, resolved_beats, next_miss_check, press, missed,
                   accepted, reported, in_window, fresh>>

\* BeatConfig::beat_time_seconds, its result handed to BeatConfig::judge
JudgeBeatTime(k) ==
    /\ judged' = judge(config, beat_time_seconds(config, k))
    /\ elapsed' = beat_time_seconds(config, k)
    /\ op' = "judge_beat_time"
    /\ UNCHANGED <<config, resolved_beats, next_miss_check, press, missed,
                   accepted, reported, in_window, fresh>>

NextJudge ==
    \/ \E e \in Times : Judge(e)
    \/ \E k \in 0..MaxBeat : JudgeBeatTime(k)

\* offsets small against the period: elapsed + offset + period / 2 is never negative
SpecJudge == Init /\ [][NextJudge]_vars

InitSigned == \E c \in JudgeConfigs : New(c)

\* offsets of either sign up to more than a period
SpecJudgeSigned == InitSigned /\ [][NextJudge]_vars

----------------------------------------------------------------------------
(* One session of presses and polls, with the tolerance windows the presses *)
(* fell in                                                                  *)

WindowPress(e) ==
    /\ e >= elapsed
    /\ Press(e)
    /\ in_window' = in_window \cup WindowBeats(config, e)

WindowPoll(e) == e >= elapsed /\ PollMissed(e)

NextWindow ==
    \/ \E e \in Times : WindowPress(e)
    \/ \E e \in Times : WindowPoll(e)

SpecWindow == Init /\ [][NextWindow]_vars

----------------------------------------------------------------------------
(* One session of polls only, with nondecreasing elapsed values             *)

NextPoll == \E e \in Times : e >= elapsed /\ PollMissed(e)

SpecPoll == Init /\ [][NextPoll]_vars

----------------------------------------------------------------------------
(* One session driven by a clock: the caller reads the playback position,   *)
(* which never goes back, and hands it to register_press and poll_missed.   *)
(* The clock keeps advancing and the caller keeps polling.                  *)

ClockTick ==
    /\ elapsed < MaxTime
    /\ elapsed' = elapsed + 1
    /\ op' = "clock"
    /\ press' = NoPress
    /\ missed' = <<>>
    /\ fresh' = [fresh EXCEPT !.press = NoPress, !.missed = <<>>]
    /\ UNCHANGED <<config, resolved_beats, next_miss_check, judged, accepted,
                   reported, in_window>>

ClockPress == RegisterPress(elapsed)

ClockPoll == PollMissed(elapsed)

NextClock == ClockTick \/ ClockPress \/ ClockPoll

SpecClock ==
    Init /\ [][NextClock]_vars /\ WF_vars(ClockTick) /\ WF_vars(ClockPoll)

----------------------------------------------------------------------------
(* One session of presses and polls with an ill-formed tempo: a period that *)
(* is +inf (tempo 0) or negative                                            *)

PathologicalConfigs ==
    [bpm : {0, -6}, offset_seconds : (-MaxOffset)..MaxOffset,
     leniency_seconds : 0..MaxLeniency, grace_beats : 0..MaxGrace]

InitPathological == \E c \in PathologicalConfigs : New(c)

NextPathological ==
    \/ \E e \in Times : RegisterPress(e)
    \/ \E e \in Times : PollMissed(e)

SpecPathological == InitPathological /\ [][NextPathological]_vars

----------------------------------------------------------------------------
(* Claims                                                                  *)

JudgeOps == {"judge", "judge_beat_time"}

\* how often beat index k was resolved in this session, by either route
Resolutions(k) == CopiesIn(k, accepted) + Occurrences(reported, k)

\* C1: within a session, whatever the calls and their elapsed values, every
\* beat index of the resolved set entered it exactly once, through an Accepted
\* on-beat press or through a missed-beat notification, never through both;
\* and nothing else was ever accepted or reported.
NoDoubleResolution ==
    \A k \in resolved_beats \cup BagToSet(accepted) \cup Range(reported) :
        k \in resolved_beats /\ Resolutions(k) = 1

\* C1's case: a beat claimed by a press that the scan has passed, in a session
\* that also reported a missed beat
PressedBeatPassedByScan ==
    \E k \in BagToSet(accepted) :
        /\ config.grace_beats <= k
        /\ k < next_miss_check
        /\ reported # <<>>
        /\ op = "poll_missed"

\* C2: with a valid configuration, a clock that keeps advancing and a caller
\* that keeps polling, every beat index at or above grace_beats whose leniency
\* window closes before the end of the session is eventually resolved, by an
\* accepted press or by exactly one missed notification.
EveryBeatEventuallyResolved ==
    \A k \in 0..MaxCursor :
        (/\ ValidConfig(config)
         /\ k >= config.grace_beats
         /\ beat_time_seconds(config, k) + config.leniency_seconds < MaxTime)
            ~> (k \in resolved_beats /\ Resolutions(k) = 1)

\* C2's case: at the end of a clocked session one beat was claimed by a press
\* and another was reported missed
SessionEndsPressedAndMissed ==
    /\ ValidConfig(config)
    /\ elapsed = MaxTime
    /\ op = "poll_missed"
    /\ \E k \in BagToSet(accepted) : k >= config.grace_beats
    /\ reported # <<>>

\* C3: round trip: for a valid configuration and a beat index k,
\* judge(beat_time_seconds(k)) has beat index k, error 0 and on_beat true.
JudgeOfBeatTimeIsThatBeat ==
    (op = "judge_beat_time" /\ ValidConfig(config)) =>
        \E k \in 0..MaxBeat :
            /\ elapsed = beat_time_seconds(config, k)
            /\ judged.beat_index = k
            /\ judged.error_seconds = 0
            /\ judged.on_beat

\* C4: for a valid configuration, judge(elapsed).on_beat is true exactly when
\* elapsed is within leniency_seconds of the time of the judged beat index.
OnBeatIffWithinLeniency ==
    (op \in JudgeOps /\ ValidConfig(config)) =>
        (judged.on_beat <=>
            Abs(elapsed - beat_time_seconds(config, judged.beat_index))
                <= config.leniency_seconds)

\* elapsed is exactly half a period away from the beats around it
OnHalfPeriod(c, elapsed_seconds) ==
    2 * Abs(Rem(elapsed_seconds + c.offset_seconds, beat_period_seconds(c)))
        = beat_period_seconds(c)

\* C5: for a valid configuration and an elapsed off the half-period boundary,
\* judge's error is positive when elapsed is after the time of the judged beat
\* index and negative when it is before it.
ErrorSignIsLateness ==
    (op \in JudgeOps /\ ValidConfig(config) /\ ~OnHalfPeriod(config, elapsed)) =>
        LET beat_time == beat_time_seconds(config, judged.beat_index)
        IN  /\ elapsed > beat_time => judged.error_seconds > 0
            /\ elapsed < beat_time => judged.error_seconds < 0

\* C6: for a valid configuration and any elapsed, judge's phase lies in
\* [0, period) and the magnitude of its error is at most half the period.
PhaseAndErrorBounded ==
    (op \in JudgeOps /\ ValidConfig(config)) =>
        /\ 0 <= Phase(config, elapsed)
        /\ Phase(config, elapsed) < beat_period_seconds(config)
        /\ 2 * Abs(judged.error_seconds) <= beat_period_seconds(config)

\* C7: within a session with a valid configuration, of the presses inside the
\* tolerance window of one beat the first returns Accepted and every later one
\* returns Duplicate.
OneAcceptedHitPerBeat ==
    [][(op' = "register_press" /\ ValidConfig(config)) =>
          \A k \in WindowBeats(config, elapsed') :
              press'.accept = IF k \in in_window THEN "Duplicate" ELSE "Accepted"]_vars

\* C8: once an on-beat press was Accepted for beat index k, every later press
\* of the session judged on-beat with index k returns Duplicate and leaves the
\* resolved set and the scan cursor unchanged.
DuplicateIsIdempotent ==
    [][(/\ op' = "register_press"
        /\ press'.judgment.on_beat
        /\ CopiesIn(press'.judgment.beat_index, accepted) > 0)
          => (/\ press'.accept = "Duplicate"
              /\ UNCHANGED <<resolved_beats, next_miss_check>>)]_vars

\* C8's case: a press returned Duplicate for a beat an earlier press claimed
DuplicateOfAcceptedPress ==
    /\ op = "register_press"
    /\ press.accept = "Duplicate"
    /\ CopiesIn(press.judgment.beat_index, accepted) = 1

\* C9: a press judged off-beat returns Accepted and leaves the resolved set
\* and the scan cursor unchanged; so an on-beat press for a beat index that no
\* on-beat press claimed and no poll reported is Accepted, whatever off-beat
\* presses came before it.
OffBeatPressLeavesState ==
    [][/\ (op' = "register_press" /\ ~press'.judgment.on_beat)
          => (/\ press'.accept = "Accepted"
              /\ UNCHANGED <<resolved_beats, next_miss_check>>)
       /\ (/\ op' = "register_press"
           /\ press'.judgment.on_beat
           /\ Resolutions(press'.judgment.beat_index) = 0)
          => press'.accept = "Accepted"]_vars

\* C9's case: an off-beat press was Accepted for a beat index that is still
\* unresolved while another beat is resolved
OffBeatPressAccepted ==
    /\ op = "register_press"
    /\ ~press.judgment.on_beat
    /\ press.accept = "Accepted"
    /\ press.judgment.beat_index \notin resolved_beats
    /\ resolved_beats # {}

\* C10: on a fresh tracker with a valid configuration and no presses, after
\* polls with nondecreasing elapsed the resolved set is exactly the beat
\* indices from grace_beats on whose window has closed at the last elapsed,
\* and exactly those were reported missed.
CoverageAfterPolls ==
    (op = "poll_missed" /\ ValidConfig(config)) =>
        LET closed == {i \in 0..MaxCursor :
                          /\ i >= config.grace_beats
                          /\ beat_time_seconds(config, i) + config.leniency_seconds
                                < elapsed}
        IN  /\ resolved_beats = closed
            /\ Range(reported) = closed

\* C10's case: several polls reported two or more beats above a warm-up
SeveralPollsCoverBeats ==
    /\ op = "poll_missed"
    /\ ValidConfig(config)
    /\ config.grace_beats >= 1
    /\ Cardinality(resolved_beats) >= 2
    /\ Len(missed) >= 1
    /\ Len(missed) < Len(reported)

\* the sequence s is strictly increasing
StrictlyIncreasing(s) == \A i, j \in DOMAIN s : i < j => s[i] < s[j]

\* C11: within a session the beat indices of the missed-beat notifications, in
\* the order of their emission over all polls, are strictly increasing; so is
\* each poll's result, and no index is reported twice.
MissedIndicesIncrease ==
    /\ StrictlyIncreasing(reported)
    /\ StrictlyIncreasing([i \in DOMAIN missed |-> missed[i].beat_index])

\* C11's case: a poll that reported two beats after an earlier poll reported one
TwoPollsReportThreeBeats ==
    /\ op = "poll_missed"
    /\ Len(missed) >= 2
    /\ Len(reported) > Len(missed)

\* C12: reset(c) leaves the tracker as new(c) builds it, whatever came before:
\* in every session the tracker has the fields of the tracker built by new at
\* the start of the session and given the same calls, and each call returned
\* what it returned there.
ResetIsConstruct ==
    /\ config = fresh.config
    /\ resolved_beats = fresh.resolved_beats
    /\ next_miss_check = fresh.next_miss_check
    /\ press = fresh.press
    /\ missed = fresh.missed

\* C12's case: in a session begun by resetting a tracker with history, a beat
\* has been claimed by a press and another reported missed
ResolvedAgainAfterReset ==
    /\ fresh.after_history
    /\ accepted # EmptyBag
    /\ reported # <<>>

\* C13: in a session whose elapsed values never decrease, with a valid
\* configuration, once a poll has reported beat index k missed no later press
\* is judged on-beat with beat index k.
MissedBeatCannotBeHit ==
    (op = "register_press" /\ ValidConfig(config) /\ press.judgment.on_beat)
        => press.judgment.beat_index \notin Range(reported)

\* tempo 120, offset 0, warm-up 0 with a tick of 0.125 s: a period of 4 ticks
ScenarioConfig ==
    [bpm |-> 6, offset_seconds |-> 0, leniency_seconds |-> 0, grace_beats |-> 0]

\* C14: every missed-beat notification of poll_missed(elapsed) carries
\* late_by = elapsed - beat_time_seconds(its beat index); and with the period
\* of 4 ticks, offset 0, warm-up 0 and no press, the first poll, at 10 ticks,
\* reports exactly the beats 0, 1, 2, late by 10, 6 and 2 ticks.
LateByIsElapsedMinusBeatTime ==
    op = "poll_missed" =>
        /\ \A i \in DOMAIN missed :
              missed[i].late_by_seconds
                  = elapsed - beat_time_seconds(config, missed[i].beat_index)
        /\ (/\ config = ScenarioConfig
            /\ elapsed = 10
            /\ accepted = EmptyBag
            /\ Len(reported) = Len(missed))
              => missed = <<[beat_index |-> 0, late_by_seconds |-> 10],
                            [beat_index |-> 1, late_by_seconds |-> 6],
                            [beat_index |-> 2, late_by_seconds |-> 2]>>

\* C14's case: the first poll of a session without presses, at 10 ticks,
\* reports three beats
ThreeBeatsReportedLate ==
    /\ op = "poll_missed"
    /\ config \in {ScenarioConfig, [ScenarioConfig EXCEPT !.leniency_seconds = 1]}
    /\ elapsed = 10
    /\ accepted = EmptyBag
    /\ Len(missed) = 3
    /\ Len(reported) = 3

\* C15: between resets the scan cursor never decreases and is never below
\* grace_beats, and register_press does not change it.
CursorOnlyAdvances ==
    [][/\ next_miss_check' >= config'.grace_beats
       /\ op' # "reset" => next_miss_check' >= next_miss_check
       /\ op' = "register_press" => next_miss_check' = next_miss_check]_vars

\* C15's case: a press made after polls have moved the cursor past grace_beats
PressAfterCursorMoved ==
    /\ op = "register_press"
    /\ press.judgment.on_beat
    /\ next_miss_check >= config.grace_beats + 2

\* C16: register_press returns counts = (beat_index >= grace_beats), whatever
\* the on-beat flag and the outcome; on-beat presses below grace_beats are
\* deduplicated like the others, the first Accepted and resolved, the later
\* ones Duplicate.
CountsIffPastGrace ==
    [][op' = "register_press" =>
          /\ press'.counts = (press'.judgment.beat_index >= config.grace_beats)
          /\ (press'.judgment.on_beat /\ press'.judgment.beat_index < config.grace_beats)
                => /\ press'.judgment.beat_index \in resolved_beats'
                   /\ press'.accept = IF press'.judgment.beat_index \in resolved_beats
                                      THEN "Duplicate" ELSE "Accepted"]_vars

\* C16's case: a Duplicate on-beat press for a warm-up beat that an earlier
\* press claimed
WarmUpPressDeduplicated ==
    /\ op = "register_press"
    /\ press.judgment.on_beat
    /\ press.accept = "Duplicate"
    /\ ~press.counts
    /\ CopiesIn(press.judgment.beat_index, accepted) = 1

\* the leniency window of beat i is over at elapsed_seconds
WindowClosed(c, i, elapsed_seconds) ==
    beat_time_seconds(c, i) + c.leniency_seconds < elapsed_seconds

\* C17: with a valid configuration poll_missed ends, having advanced the
\* cursor by the number of beat indices from the cursor on whose window has
\* closed: over the closed ones and up to the first whose window is open.
ScanStopsAtFirstOpenBeat ==
    [][(op' = "poll_missed" /\ ValidConfig(config)) =>
          /\ next_miss_check' - next_miss_check
                = Cardinality({i \in next_miss_check..(MaxCursor + 1) :
                                  WindowClosed(config, i, elapsed')})
          /\ \A i \in next_miss_check..(next_miss_check' - 1) :
                WindowClosed(config, i, elapsed')
          /\ ~WindowClosed(config, next_miss_check', elapsed')]_vars

\* C17's case: a poll that moved the cursor over two beats or more, one of
\* them claimed by a press
ScanPassedSeveralBeats ==
    /\ op = "poll_missed"
    /\ ValidConfig(config)
    /\ Len(missed) >= 1
    /\ \E k \in BagToSet(accepted) :
          /\ config.grace_beats <= k
          /\ k < next_miss_check
          /\ k > missed[1].beat_index

\* C18: with a beat period that is not finite or not positive, every
\* poll_missed ends after one scan iteration at most: it returns at most one
\* missed-beat notification and advances the cursor by at most one.
PathologicalPollStopsAfterOne ==
    [][(op' = "poll_missed" /\ config.bpm <= 0) =>
          /\ Len(missed') <= 1
          /\ next_miss_check' - next_miss_check \in {0, 1}]_vars

\* C18's case: with a negative period, a poll that reported one beat after
\* earlier polls had moved the cursor
PathologicalPollReportsOne ==
    /\ op = "poll_missed"
    /\ config.bpm < 0
    /\ Len(missed) = 1
    /\ next_miss_check >= config.grace_beats + 2

\* C19: in every state of a session, every beat index from the warm-up
\* count up to (not including) the scan cursor is in the resolved set.
BeatsBehindCursorResolved ==
    \A i \in config.grace_beats..(next_miss_check - 1) : i \in resolved_beats

\* C19's case: the cursor has passed a beat resolved by a press and a beat
\* resolved by a missed-beat notification
CursorPassedHitAndMiss ==
    \E i, j \in config.grace_beats..(next_miss_check - 1) :
        /\ i \in BagToSet(accepted)
        /\ j \in Range(reported)
        /\ i # j

\* C20: for a valid configuration, a poll_missed right after a poll_missed,
\* at the same or an earlier elapsed time, returns no notification and leaves
\* the resolved set and the scan cursor unchanged.
RepeatedPollChangesNothing ==
    [][(/\ op = "poll_missed"
        /\ op' = "poll_missed"
        /\ elapsed' <= elapsed
        /\ ValidConfig(config)) =>
          /\ missed' = <<>>
          /\ resolved_beats' = resolved_beats
          /\ next_miss_check' = next_miss_check]_vars

\* C20's case: a poll that returned nothing at an elapsed time at which the
\* window of the last beat reported missed is still open, so that an earlier
\* poll at a later time had already moved the cursor past it
PollAgainNotLater ==
    /\ op = "poll_missed"
    /\ ValidConfig(config)
    /\ missed = <<>>
    /\ reported # <<>>
    /\ window_open(config, reported[Len(reported)], elapsed)

=============================================================================
